---- MODULE Spec2Model ----
(***************************************************************************)
(* Model of the CuideMais backend: the appointment routes                  *)
(* (routers/appointments.py) acting on the Appointment table, and the      *)
(* patient-risk heuristic (services/ml_services.py) reading it.            *)
(*                                                                         *)
(* Dates are day numbers, so (now - apt.date).days is now - date.          *)
(* The Python code computes rates, frequencies and the score in IEEE       *)
(* doubles; here they are exact rationals [num, den] in lowest terms.  On  *)
(* the inputs used below the double result and the exact result agree     *)
(* after int() and in every comparison the code makes.  Strings are kept   *)
(* in ASCII ("Medio" for "Médio").                                         *)
(***************************************************************************)
EXTENDS Integers, Sequences, FiniteSets, TLC

VARIABLES appointments, response, metrics, verdict

vars == <<appointments, response, metrics, verdict>>

(***************************************************************************)
(* Bounds of the model.                                                    *)
(***************************************************************************)
MaxAppointments == 2

\* models.models.AppointmentStatus
AGENDADO == "AGENDADO"
CONCLUIDO == "CONCLUIDO"
CANCELADO == "CANCELADO"
AppointmentStatus == {AGENDADO, CONCLUIDO, CANCELADO}

\* models.models.UserType
PSICOLOGO == "PSICOLOGO"
PACIENTE == "PACIENTE"

\* class RiskLevel
BAIXO == "Baixo"
MEDIO == "Medio"
ALTO == "Alto"

\* The Patient table (id, psychologist_id), in the order the patient query
\* returns it.  No route of the modelled files writes it.
Patients ==
    << [id |-> 1, psychologist_id |-> 1],
       [id |-> 2, psychologist_id |-> 1] >>

\* Inputs of the requests.  Today is day 100 or day 130, so the days below
\* lie 40 and 70, 0 and 30, -23 and 7 days back.
PsychologistIds == {1, 2}
\* who books with whom: both patients with psychologist 1, their own, and
\* patient 1 with psychologist 2 as well
Bookings == {<<1, 1>>, <<2, 1>>, <<1, 2>>}
Dates == {60, 100, 123}
Times == {"08:00"}
Nows == {100, 130}
Users ==
    { [user_type |-> PSICOLOGO, id |-> 1],
      [user_type |-> PACIENTE, id |-> 3] }
\* Inputs of the booking specification: one patient, two days, two hours.
SlotDates == {100, 123}
SlotTimes == {"08:00", "09:00"}
\* A field of AppointmentUpdate: <<>> when the request does not set it
\* (dict(exclude_unset=True) leaves it out), <<v>> when it sets it to v.
Optional(S) == {<<>>} \cup {<<v>> : v \in S}

(***************************************************************************)
(* Exact rationals.                                                        *)
(***************************************************************************)
Abs(x) == IF x < 0 THEN -x ELSE x

RECURSIVE GCD(_, _)
GCD(a, b) == IF b = 0 THEN a ELSE GCD(b, a % b)

\* num/den with den > 0, in lowest terms
Rat(num, den) ==
    LET g == GCD(Abs(num), den)
    IN  [num |-> num \div g, den |-> den \div g]

RInt(i) == [num |-> i, den |-> 1]
RAdd(a, b) == Rat(a.num * b.den + b.num * a.den, a.den * b.den)
RMul(a, b) == Rat(a.num * b.num, a.den * b.den)
\* a / b for b > 0
RDiv(a, b) == Rat(a.num * b.den, a.den * b.num)
RLt(a, b) == a.num * b.den < b.num * a.den
RMin(a, b) == IF RLt(b, a) THEN b ELSE a
RMax(a, b) == IF RLt(a, b) THEN b ELSE a

\* int(x) of Python: truncation toward zero
Trunc(r) ==
    IF r.num >= 0 THEN r.num \div r.den ELSE -((-r.num) \div r.den)

\* the floor integer
Floor(r) == r.num \div r.den

Min(a, b) == IF a < b THEN a ELSE b

(***************************************************************************)
(* services/ml_services.py                                                 *)
(***************************************************************************)
RECURSIVE MinDate(_)
MinDate(appts) ==
    IF Len(appts) = 1 THEN appts[1].date
    ELSE Min(appts[1].date, MinDate(Tail(appts)))

\* the days taken for months
MonthsActiveNoDivision(days) == RMax(RInt(1), RInt(days))

\* months_active = max(1, (now - first_appointment).days / 30)
MonthsActive(days) == RMax(RInt(1), Rat(days, 30))

\* a window that leaves its last day out
InLastExclusive(now, a, n) == now - a.date < n

\* (now - apt.date).days <= n
InLast(now, a, n) == now - a.date <= n

\* appts is the history of one patient, newest first, and not empty;
\* now is datetime.now().date()
extract_patiente_metrics(appts, now) ==
    LET completed == SelectSeq(appts, LAMBDA a : a.status = CONCLUIDO)
        canceled == SelectSeq(appts, LAMBDA a : a.status = CANCELADO)
        scheduled == SelectSeq(appts, LAMBDA a : a.status = AGENDADO)
        total_appointments == Len(appts)
        first_appointment == MinDate(appts)
        months_active == MonthsActive(now - first_appointment)
        recent_completed == Len(SelectSeq(completed, LAMBDA a : now - a.date <= 30))
        previous_completed ==
            Len(SelectSeq(completed, LAMBDA a : 30 < now - a.date /\ now - a.date <= 60))
    IN  [ total_appointments |-> total_appointments,
          completed_appointments |-> Len(completed),
          canceled_appointments |-> Len(canceled),
          cancellation_rate |-> Rat(Len(canceled), total_appointments),
          days_since_last |-> now - appts[1].date,
          frequency_per_month |-> RDiv(RInt(Len(appts)), months_active),
          appointments_last_30 |-> Len(SelectSeq(appts, LAMBDA a : InLast(now, a, 30))),
          appointments_last_60 |-> Len(SelectSeq(appts, LAMBDA a : InLast(now, a, 60))),
          appointments_last_90 |-> Len(SelectSeq(appts, LAMBDA a : InLast(now, a, 90))),
          recent_trend |-> recent_completed - previous_completed,
          has_future_appointments |-> Len(scheduled) > 0 ]

\* "Dias sem consulta (30%)"
DaysTerm(m) == RMul(RMin(Rat(m.days_since_last, 60), RInt(1)), RInt(30))

\* "Cancelamentos (25%)"
CancellationTerm(m) == RMul(m.cancellation_rate, RInt(25))

\* "Frequencia baixa (20%)"
LowFrequencyTerm(m) ==
    IF RLt(m.frequency_per_month, RInt(1)) THEN 20
    ELSE IF RLt(m.frequency_per_month, RInt(2)) THEN 10
    ELSE 0

\* "Ausencia recente (15%)"
RecentAbsenceTerm(m) ==
    IF m.appointments_last_30 = 0 THEN 15
    ELSE IF m.appointments_last_60 = 0 THEN 10
    ELSE 0

\* "Tendencia negativa (10%)"
NegativeTrendTerm(m) ==
    IF m.recent_trend < -1 THEN 10
    ELSE IF m.recent_trend < 0 THEN 5
    ELSE 0

\* "Sem futuros agendamentos (5%)"
NoFutureTerm(m) == IF ~m.has_future_appointments THEN 5 ELSE 0

\* score, before int() and the clamp
RawScore(m) ==
    RAdd(RAdd(DaysTerm(m), CancellationTerm(m)),
         RInt(LowFrequencyTerm(m) + RecentAbsenceTerm(m)
              + NegativeTrendTerm(m) + NoFutureTerm(m)))

calculate_risk_score(m) == Min(Trunc(RawScore(m)), 100)

\* the thresholds taken as exclusive
determine_risk_level_exclusive(risk_score) ==
    IF risk_score > 70 THEN ALTO
    ELSE IF risk_score > 40 THEN MEDIO
    ELSE BAIXO

determine_risk_level(risk_score) ==
    IF risk_score >= 70 THEN ALTO
    ELSE IF risk_score >= 40 THEN MEDIO
    ELSE BAIXO

\* the list reasons, in the order of the appends
Reasons(m) ==
    LET r1 == IF m.days_since_last > 45 THEN <<"Ausente ha mais de 45 dias">>
              ELSE IF m.days_since_last > 30 THEN <<"Ausente ha mais de 30 dias">>
              ELSE <<>>
        r2 == IF RLt(Rat(3, 10), m.cancellation_rate)
              THEN Append(r1, "Alta taxa de cancelamentos")
              ELSE IF RLt(Rat(2, 10), m.cancellation_rate)
              THEN Append(r1, "Cancelamentos frequentes")
              ELSE r1
        r3 == IF RLt(m.frequency_per_month, RInt(1))
              THEN Append(r2, "Baixa frequencia de consultas")
              ELSE r2
        r4 == IF m.appointments_last_30 = 0
              THEN Append(r3, "Sem consultas no ultimo mes")
              ELSE r3
        r5 == IF m.recent_trend < -1
              THEN Append(r4, "Diminuicao na frequencia")
              ELSE r4
    IN  IF ~m.has_future_appointments
        THEN Append(r5, "Sem agendamentos futuros")
        ELSE r5

\* the last reason of the list returned
identify_risk_reason_last(m) ==
    IF Reasons(m) # <<>> THEN Reasons(m)[Len(Reasons(m))]
    ELSE "Padrao normal de consultas"

identify_risk_reason(m) ==
    IF Reasons(m) # <<>> THEN Reasons(m)[1] ELSE "Padrao normal de consultas"

\* .order_by(Appointment.date.desc()): rows of equal date keep table order
RECURSIVE InsertByDateDesc(_, _)
InsertByDateDesc(sorted, a) ==
    IF sorted = <<>> THEN <<a>>
    ELSE IF Head(sorted).date >= a.date
         THEN <<Head(sorted)>> \o InsertByDateDesc(Tail(sorted), a)
         ELSE <<a>> \o sorted

RECURSIVE OrderByDateDesc(_)
OrderByDateDesc(rows) ==
    IF rows = <<>> THEN <<>>
    ELSE InsertByDateDesc(OrderByDateDesc(SubSeq(rows, 1, Len(rows) - 1)),
                          rows[Len(rows)])

\* the appointment query without its psychologist filter
PatientAppointmentsOfAnyPsychologist(table, patient_id, psychologist_id) ==
    OrderByDateDesc(SelectSeq(table, LAMBDA a : a.patient_id = patient_id))

\* the appointment query of one patient
PatientAppointments(table, patient_id, psychologist_id) ==
    OrderByDateDesc(
        SelectSeq(table, LAMBDA a : /\ a.patient_id = patient_id
                                    /\ a.psychologist_id = psychologist_id))

\* the patient query
PatientsOf(psychologist_id) ==
    SelectSeq(Patients, LAMBDA p : p.psychologist_id = psychologist_id)

\* one entry of risk_analysis
RiskEntry(patient, appts, now) ==
    LET m == extract_patiente_metrics(appts, now)
        risk_score == calculate_risk_score(m)
    IN  [ id |-> patient.id,
          risk_score |-> risk_score,
          risk_level |-> determine_risk_level(risk_score),
          reason |-> identify_risk_reason(m),
          last_appointment |-> appts[1].date,
          metrics |-> m ]

\* the loop over the patients
RECURSIVE RiskAnalysis(_, _, _, _)
RiskAnalysis(table, patients, psychologist_id, now) ==
    IF patients = <<>> THEN <<>>
    ELSE LET patient == Head(patients)
             appts == PatientAppointments(table, patient.id, psychologist_id)
             rest == RiskAnalysis(table, Tail(patients), psychologist_id, now)
         IN  IF appts = <<>> THEN rest
             ELSE <<RiskEntry(patient, appts, now)>> \o rest

\* sorted(risk_analysis, key=risk_score, reverse=True): a stable sort
RECURSIVE InsertByScoreDesc(_, _)
InsertByScoreDesc(sorted, x) ==
    IF sorted = <<>> THEN <<x>>
    ELSE IF Head(sorted).risk_score >= x.risk_score
         THEN <<Head(sorted)>> \o InsertByScoreDesc(Tail(sorted), x)
         ELSE <<x>> \o sorted

\* an ascending sort reversed: results of equal score change places
RECURSIVE InsertByScoreReversed(_, _)
InsertByScoreReversed(sorted, x) ==
    IF sorted = <<>> THEN <<x>>
    ELSE IF Head(sorted).risk_score > x.risk_score
         THEN <<Head(sorted)>> \o InsertByScoreReversed(Tail(sorted), x)
         ELSE <<x>> \o sorted

RECURSIVE SortedAscendingReversed(_)
SortedAscendingReversed(xs) ==
    IF xs = <<>> THEN <<>>
    ELSE InsertByScoreReversed(SortedAscendingReversed(SubSeq(xs, 1, Len(xs) - 1)),
                               xs[Len(xs)])

RECURSIVE SortedByScoreDesc(_)
SortedByScoreDesc(xs) ==
    IF xs = <<>> THEN <<>>
    ELSE InsertByScoreDesc(SortedByScoreDesc(SubSeq(xs, 1, Len(xs) - 1)),
                           xs[Len(xs)])

RiskResult(table, psychologist_id, now) ==
    SortedByScoreDesc(RiskAnalysis(table, PatientsOf(psychologist_id),
                                   psychologist_id, now))

(***************************************************************************)
(* Responses of the requests.                                              *)
(***************************************************************************)
\* The response of a booking route: its status code.
Http(status) ==
    [op |-> "http", status |-> status, psychologist_id |-> 0, now |-> 0, body |-> <<>>]

NoMetrics ==
    [ days_since_last |-> 0, cancellation_rate |-> RInt(0),
      frequency_per_month |-> RInt(0), appointments_last_30 |-> 0,
      appointments_last_60 |-> 0, recent_trend |-> 0,
      has_future_appointments |-> FALSE ]
NoVerdict == [applied |-> FALSE]

Init ==
    /\ appointments = <<>>
    /\ response = Http(0)
    /\ metrics = NoMetrics
    /\ verdict = NoVerdict

\* risk_analysis kept from one call to the next
calculate_patiente_risk_shared_list(psychologist_id, now) ==
    /\ response' = [ op |-> "risk", status |-> 200,
                     psychologist_id |-> psychologist_id, now |-> now,
                     body |-> SortedByScoreDesc(
                                  response.body \o
                                  RiskAnalysis(appointments, PatientsOf(psychologist_id),
                                               psychologist_id, now)) ]
    /\ UNCHANGED <<appointments, metrics, verdict>>

\* calculate_patiente_risk(db, psychologist_id).  now is what datetime.now()
\* returns during the call: one day for the whole call.  The patient query
\* has no ORDER BY and is taken to answer in table order on every call.
calculate_patiente_risk(psychologist_id, now) ==
    /\ response' = [ op |-> "risk", status |-> 200,
                     psychologist_id |-> psychologist_id, now |-> now,
                     body |-> RiskResult(appointments, psychologist_id, now) ]
    /\ UNCHANGED <<appointments, metrics, verdict>>

(***************************************************************************)
(* routers/appointments.py                                                 *)
(***************************************************************************)
\* the AGENDADO rows of a psychologist's slot
Existing(table, psychologist_id, date, time) ==
    { i \in 1..Len(table) : /\ table[i].psychologist_id = psychologist_id
                            /\ table[i].date = date
                            /\ table[i].time = time
                            /\ table[i].status = AGENDADO }

create_appointment(patient_id, psychologist_id, date, time) ==
    IF Existing(appointments, psychologist_id, date, time) # {}
    THEN /\ response' = Http(400)
         /\ UNCHANGED <<appointments, metrics, verdict>>
    ELSE /\ Len(appointments) < MaxAppointments
         /\ appointments' = Append(appointments,
                [ patient_id |-> patient_id, psychologist_id |-> psychologist_id,
                  date |-> date, time |-> time, status |-> AGENDADO ])
         /\ response' = Http(200)
         /\ UNCHANGED <<metrics, verdict>>

\* setattr for every field the request sets
Patch(row, date, time, status) ==
    [ row EXCEPT !.date = IF date = <<>> THEN @ ELSE date[1],
                 !.time = IF time = <<>> THEN @ ELSE time[1],
                 !.status = IF status = <<>> THEN @ ELSE status[1] ]

update_appointment(appointment_id, date, time, status, current_user) ==
    IF appointment_id \notin 1..Len(appointments)
    THEN /\ response' = Http(404)
         /\ UNCHANGED <<appointments, metrics, verdict>>
    ELSE IF /\ current_user.user_type = PSICOLOGO
            /\ appointments[appointment_id].psychologist_id # current_user.id
    THEN /\ response' = Http(403)
         /\ UNCHANGED <<appointments, metrics, verdict>>
    ELSE /\ appointments' =
                [appointments EXCEPT ![appointment_id] = Patch(@, date, time, status)]
         /\ response' = Http(200)
         /\ UNCHANGED <<metrics, verdict>>

cancel_appointment(appointment_id) ==
    IF appointment_id \notin 1..Len(appointments)
    THEN /\ response' = Http(404)
         /\ UNCHANGED <<appointments, metrics, verdict>>
    ELSE /\ appointments' = [appointments EXCEPT ![appointment_id].status = CANCELADO]
         /\ response' = Http(200)
         /\ UNCHANGED <<metrics, verdict>>

AppointmentIds == 1..(MaxAppointments + 1)

(***************************************************************************)
(* The backend: bookings, status changes and risk reports.  Every row of   *)
(* the table gets its patient, psychologist and day from create; update    *)
(* requests here set the status only, which reaches the same tables as     *)
(* requests that also move the day.                                        *)
(***************************************************************************)
CreateStep ==
    \E b \in Bookings, d \in Dates, t \in Times :
        create_appointment(b[1], b[2], d, t)

UpdateStep ==
    \E i \in AppointmentIds, s \in Optional(AppointmentStatus), u \in Users :
        update_appointment(i, <<>>, <<>>, s, u)

CancelStep ==
    \E i \in AppointmentIds : cancel_appointment(i)

RiskStep ==
    \E y \in PsychologistIds, n \in Nows : calculate_patiente_risk(y, n)

Next == CreateStep \/ UpdateStep \/ CancelStep \/ RiskStep

Spec == Init /\ [][Next]_vars

(***************************************************************************)
(* The booking routes alone, with every field of an update request.        *)
(***************************************************************************)
SlotCreateStep ==
    \E y \in PsychologistIds, d \in SlotDates, t \in SlotTimes :
        create_appointment(1, y, d, t)

SlotUpdateStep ==
    \E i \in AppointmentIds, d \in Optional(SlotDates), t \in Optional(SlotTimes),
       s \in Optional(AppointmentStatus), u \in Users :
        update_appointment(i, d, t, s, u)

SlotNext == SlotCreateStep \/ SlotUpdateStep \/ CancelStep

SpecBooking == Init /\ [][SlotNext]_vars

(***************************************************************************)
(* The scoring functions on metrics records of their own: the record is    *)
(* drawn from the values below, then scored, levelled and explained.       *)
(***************************************************************************)
MetricDays == {-23, 0, 30, 31, 45, 46, 60, 100}
MetricRates == {Rat(0, 1), Rat(1, 5), Rat(1, 4), Rat(3, 10), Rat(7, 20), Rat(1, 1)}
MetricFrequencies == {Rat(1, 2), Rat(1, 1), Rat(3, 2), Rat(2, 1)}
MetricWindows == {<<0, 0>>, <<0, 1>>, <<1, 1>>}
MetricTrends == {-2, -1, 0, 1}

MetricsInit ==
    /\ appointments = <<>>
    /\ response = Http(0)
    /\ verdict = NoVerdict
    /\ \E d \in MetricDays, c \in MetricRates, f \in MetricFrequencies,
          w \in MetricWindows, t \in MetricTrends, h \in BOOLEAN :
          metrics = [ days_since_last |-> d, cancellation_rate |-> c,
                      frequency_per_month |-> f, appointments_last_30 |-> w[1],
                      appointments_last_60 |-> w[2], recent_trend |-> t,
                      has_future_appointments |-> h ]

Evaluate ==
    /\ ~verdict.applied
    /\ verdict' = [ applied |-> TRUE,
                    risk_score |-> calculate_risk_score(metrics),
                    risk_level |-> determine_risk_level(calculate_risk_score(metrics)),
                    reason |-> identify_risk_reason(metrics) ]
    /\ UNCHANGED <<appointments, response, metrics>>

SpecMetrics == MetricsInit /\ [][Evaluate]_vars

(***************************************************************************)
(* Properties.                                                             *)
(***************************************************************************)
IsRisk == response.op = "risk"
Body == response.body
Entries == {Body[i] : i \in DOMAIN Body}

\* The history of a reported patient, as the table holds it.
HistoryOf(patient_id) ==
    { i \in 1..Len(appointments) :
        /\ appointments[i].patient_id = patient_id
        /\ appointments[i].psychologist_id = response.psychologist_id }

\* C1: every risk_score of a report lies in 0..100, whatever the statuses and
\* the dates of the history, dates after today included.
C1_ScoreInRange ==
    IsRisk => \A e \in Entries : e.risk_score \in 0..100

\* The sum of the six terms of the scoring table.
TableSum(m) ==
    LET recency == RMul(RMin(Rat(m.days_since_last, 60), RInt(1)), RInt(30))
        cancel == RMul(m.cancellation_rate, RInt(25))
        low == IF RLt(m.frequency_per_month, RInt(1)) THEN 20
               ELSE IF RLt(m.frequency_per_month, RInt(2)) THEN 10 ELSE 0
        absent == IF m.appointments_last_30 = 0 THEN 15
                  ELSE IF m.appointments_last_60 = 0 THEN 10 ELSE 0
        trend == IF m.recent_trend < -1 THEN 10
                 ELSE IF m.recent_trend < 0 THEN 5 ELSE 0
        future == IF m.has_future_appointments THEN 0 ELSE 5
    IN  RAdd(RAdd(recency, cancel), RInt(low + absent + trend + future))

\* C2: the score of every metrics record is min(floor(S), 100), S the sum of
\* the six table terms.
C2_ScoreIsFloorOfSum ==
    IsRisk => \A e \in Entries : e.risk_score = Min(Floor(TableSum(e.metrics)), 100)

\* The reason of the first condition that matches, in the priority order.
FirstMatch(m) ==
    IF m.days_since_last > 45 THEN "Ausente ha mais de 45 dias"
    ELSE IF m.days_since_last > 30 THEN "Ausente ha mais de 30 dias"
    ELSE IF RLt(Rat(30, 100), m.cancellation_rate) THEN "Alta taxa de cancelamentos"
    ELSE IF RLt(Rat(20, 100), m.cancellation_rate) THEN "Cancelamentos frequentes"
    ELSE IF RLt(m.frequency_per_month, RInt(1)) THEN "Baixa frequencia de consultas"
    ELSE IF m.appointments_last_30 = 0 THEN "Sem consultas no ultimo mes"
    ELSE IF m.recent_trend < -1 THEN "Diminuicao na frequencia"
    ELSE IF ~m.has_future_appointments THEN "Sem agendamentos futuros"
    ELSE "Padrao normal de consultas"

\* C3: the reason of a metrics record is the reason of the first matching
\* condition in the priority order; a cancellation rate of 0.35 with at most
\* 30 days since the last appointment gives the high-cancellation reason.
C3_ReasonIsFirstMatch ==
    verdict.applied =>
        /\ verdict.reason = FirstMatch(metrics)
        /\ (metrics.cancellation_rate = Rat(35, 100) /\ metrics.days_since_last <= 30)
               => verdict.reason = "Alta taxa de cancelamentos"

C3_Witness ==
    /\ verdict.applied
    /\ metrics.cancellation_rate = Rat(35, 100)
    /\ metrics.days_since_last <= 30
    /\ RLt(metrics.frequency_per_month, RInt(1))
    /\ ~metrics.has_future_appointments
    /\ verdict.reason = "Alta taxa de cancelamentos"

\* The place of a patient in the answer of the patient query.
QueryPlace(patient_id) ==
    CHOOSE k \in DOMAIN PatientsOf(response.psychologist_id) :
        PatientsOf(response.psychologist_id)[k].id = patient_id

\* C4: a report is ordered by risk_score descending, and results of equal
\* score keep the order in which the patient query returned their patients.
C4_SortedStable ==
    IsRisk =>
        \A i, j \in DOMAIN Body :
            i < j =>
                /\ Body[i].risk_score >= Body[j].risk_score
                /\ Body[i].risk_score = Body[j].risk_score
                       => QueryPlace(Body[i].id) < QueryPlace(Body[j].id)

\* two patients of equal score, the second booked before the first
C4_Witness ==
    /\ IsRisk
    /\ Len(Body) = 2
    /\ Body[1].risk_score = Body[2].risk_score
    /\ Len(appointments) = 2
    /\ appointments[1].patient_id = 2

\* C5: a report holds exactly one result for each patient of the psychologist
\* who has an appointment with that psychologist, none for the other
\* patients, and is the empty sequence, with no error, when there is none.
C5_ExactlyPatientsWithHistory ==
    IsRisk =>
        LET expected ==
                { p \in 1..Len(Patients) :
                    /\ Patients[p].psychologist_id = response.psychologist_id
                    /\ HistoryOf(Patients[p].id) # {} }
        IN  /\ response.status = 200
            /\ { e.id : e \in Entries } = { Patients[p].id : p \in expected }
            /\ Len(Body) = Cardinality(expected)

\* patient 1 has appointments, none of them with psychologist 1, and is left
\* out of the report of psychologist 1, which holds patient 2
C5_Witness ==
    /\ IsRisk
    /\ response.psychologist_id = 1
    /\ \E i \in 1..Len(appointments) : appointments[i].patient_id = 1
    /\ HistoryOf(1) = {}
    /\ Len(Body) = 1
    /\ Body[1].id = 2

\* C6: the level of a result is Alto exactly from 70 up, Medio exactly from 40
\* to 69, Baixo exactly below 40, for the score stored in the same result.
C6_LevelMatchesScore ==
    IsRisk =>
        \A e \in Entries :
            /\ e.risk_level = ALTO <=> e.risk_score >= 70
            /\ e.risk_level = MEDIO <=> (40 <= e.risk_score /\ e.risk_score < 70)
            /\ e.risk_level = BAIXO <=> e.risk_score < 40

\* a report with a result at the threshold of Alto and one below 40
C6_Witness ==
    /\ IsRisk
    /\ \E e \in Entries : e.risk_score = 70 /\ e.risk_level = ALTO
    /\ \E e \in Entries : e.risk_score < 40 /\ e.risk_level = BAIXO

\* The days from the earliest appointment of a reported patient to the today
\* of the report.
DaysActive(patient_id) ==
    LET first == CHOOSE i \in HistoryOf(patient_id) :
                     \A j \in HistoryOf(patient_id) :
                         appointments[i].date <= appointments[j].date
    IN  response.now - appointments[first].date

\* C7: a patient whose whole history lies in the last 30 days has a
\* frequency_per_month equal to the number of appointments (at least 1), gets
\* no +20 low-frequency term and never the low-frequency reason; one Completed
\* appointment dated today gives days_since_last 0 and frequency_per_month 1.
C7_MonthFloor ==
    IsRisk =>
        \A e \in Entries :
            DaysActive(e.id) <= 30 =>
                /\ e.metrics.frequency_per_month = RInt(e.metrics.total_appointments)
                /\ ~RLt(e.metrics.frequency_per_month, RInt(1))
                /\ LowFrequencyTerm(e.metrics) # 20
                /\ e.reason # "Baixa frequencia de consultas"
                /\ ( /\ e.metrics.total_appointments = 1
                     /\ e.metrics.completed_appointments = 1
                     /\ e.last_appointment = response.now )
                       => /\ e.metrics.days_since_last = 0
                          /\ e.metrics.frequency_per_month = RInt(1)

\* a result for a single Completed appointment dated today
C7_Witness ==
    /\ IsRisk
    /\ \E e \in Entries :
           /\ DaysActive(e.id) = 0
           /\ e.metrics.total_appointments = 1
           /\ e.metrics.completed_appointments = 1
           /\ e.metrics.days_since_last = 0
           /\ e.metrics.frequency_per_month = RInt(1)
           /\ LowFrequencyTerm(e.metrics) = 10

C9_NoDoubleBooking ==
    \A i, j \in 1..Len(appointments) :
        ( /\ i # j
          /\ appointments[i].status = AGENDADO
          /\ appointments[j].status = AGENDADO
          /\ appointments[i].psychologist_id = appointments[j].psychologist_id )
            => \/ appointments[i].date # appointments[j].date
               \/ appointments[i].time # appointments[j].time

\* C10: in every result, no appointment in the last 30 days means more than
\* 30 days since the last appointment, so the reason is never the one of the
\* sixth condition.
C10_NoVisitReasonNeverSurfaces ==
    IsRisk =>
        \A e \in Entries :
            /\ e.metrics.appointments_last_30 = 0 => e.metrics.days_since_last > 30
            /\ e.reason # "Sem consultas no ultimo mes"

\* a result with no appointment in the last 30 days, the last one 40 days back
C10_Witness ==
    /\ IsRisk
    /\ \E e \in Entries :
           /\ e.metrics.appointments_last_30 = 0
           /\ e.metrics.days_since_last = 40
           /\ e.reason = "Ausente ha mais de 30 dias"

====
